---- MODULE Spec2Model ----
(***************************************************************************)
(* Cyberdeck controller: one I2C bus behind a multiplexer shared by an     *)
(* OLED display (channel 0) and a servo controller (channel 1), a rotary   *)
(* encoder polled by a background thread, and a fixed-rate control loop.   *)
(*                                                                         *)
(* The first part models UnifiedCyberdeckController                        *)
(* (src/unified_cyberdeck_controller.py): its constructor, the encoder     *)
(* polling thread, the main loop, the signal handler and shutdown.         *)
(*                                                                         *)
(* The second part models the stand-alone ScreenTiltController             *)
(* (src/servo_control/screen_tilt/screen_tilt_control.py) driving the      *)
(* servo through ServoKitWithMux (fixed_servo_init.py). It has the same    *)
(* fields (current_angle, encoder_pos, mode, last_clk_state) and shares    *)
(* the variables of that name. SpecMuxServo is the same controller driving *)
(* the servo through MuxAwareServoKit (mux_aware_servo.py), and SpecStream *)
(* the unified controller with an encoder that never comes to rest.        *)
(***************************************************************************)
EXTENDS Integers, Sequences, FiniteSets, TLC

\* ---------------------------------------------------------------- constants
OLED_CHANNEL == 0
SERVO_CHANNEL == 1
\* Python's None for current_mux_channel; also "no channel selected" on the
\* multiplexer hardware (its power-on state).
None == -1

\* The default configuration of load_config.
center_angle == 145
min_angle == 0
max_angle == 270
range_min_angle == 90
range_max_angle == 180
direct_sensitivity == 10
fine_sensitivity == 2
range_sensitivity == 10
\* state.get('last_position', 145.0)
default_position == 145

\* The default configuration of ScreenTiltController.load_config (the clamp
\* limits are the same as above).
tilt_center_angle == 250
tilt_direct_sensitivity == 5
tilt_fine_sensitivity == 1
tilt_range_sensitivity == 5

Modes == {"direct", "fine", "range"}

\* ------------------------------------------------------------------- bounds
\* Events the polling thread may enqueue in one run; its samples are followed
\* until the last of them is enqueued.
MaxEvents == 2

\* A continuous stream of encoder events: the events that may wait in the
\* queue at one time, and the range the stream keeps the encoder position in
\* (their number is not limited).
MaxQueued == 2
MaxStreamPos == 2

\* ScreenTiltController: the inputs (encoder detents and button presses) that
\* are followed in one run.
MaxTiltInputs == 7

\* Contents of position_state.json at start-up: absent, or a state saved by
\* an earlier run (175 in range mode; 155 in direct mode, one detent above
\* the centre).
NoState == [present |-> FALSE, last_position |-> default_position, mode |-> "direct"]
PersistedStates ==
    { NoState,
      [present |-> TRUE, last_position |-> 175, mode |-> "range"],
      [present |-> TRUE, last_position |-> 155, mode |-> "direct"] }

VARIABLES
    \* hardware handles
    mux_bus,              \* TRUE: multiplexer found (self.mux_bus is not None)
    oled_device,          \* TRUE: self.oled_device is not None
    animation_config,     \* TRUE: self.animation_config is not None
    servo_kit,            \* TRUE: self.servo_kit is not None
    fixed_servo,          \* TRUE: ScreenTiltController.fixed_servo is not None
    mux_servo,            \* TRUE: ScreenTiltController.mux_servo is not None
    \* multiplexer
    current_mux_channel,  \* cached channel: None, 0 or 1
    hw_channel,           \* channel the multiplexer hardware has selected
    bus_ok,               \* environment: will the channel-select write that is
                          \* about to be issued succeed
    mux_lock,             \* "free" or the holding thread
    servo_lock,
    \* servo position
    current_angle,
    encoder_pos,
    mode,
    \* control
    running,
    encoder_running,
    encoder_queue,
    saved_state,          \* position_state.json
    \* main thread: position, and the frame of switch_mux_channel
    pc,
    sw_chan,
    sw_ret,
    sw_result,
    usa_delta,            \* argument of update_servo_angle
    \* encoder polling thread
    enc_pc,
    last_clk_state,
    button_press_time,    \* 0: no press under way; 1: the time of the press is held
    produced,             \* events enqueued so far
    \* observation of the run
    last_io,              \* the device write issued in the operation under way
    sw_last,              \* the last switch_mux_channel call completed in this
                          \* tick of the loop (or in the constructor): its
                          \* channel and the channel-select writes it issued,
                          \* and the same of the call before it
    stale_ops,            \* completed switch calls since an out-of-band change
                          \* of the hardware channel that is not yet repaired
    \* ScreenTiltController: button handling
    click_count,
    click_timer,          \* TRUE: a threading.Timer for _process_clicks is pending
    sample,               \* what the last step read from the encoder: the DT
                          \* level at a CLK edge, or at a button release how
                          \* long the press was held and whether SW still
                          \* reads released 0.05 s later
    emitted,              \* the button event the last step classified
    exit_signal           \* ScreenTiltController: what became of a termination
                          \* signal: "none" delivered, "raised" (the exit
                          \* exception is propagating or has ended the loop),
                          \* "swallowed" (caught by a bare except)

devVars == <<mux_bus, oled_device, animation_config, servo_kit, fixed_servo,
             mux_servo>>
muxVars == <<current_mux_channel, hw_channel, mux_lock>>
posVars == <<current_angle, encoder_pos, mode>>
ctlVars == <<running, encoder_running>>
swVars == <<sw_chan, sw_ret, sw_result>>
encVars == <<enc_pc, last_clk_state, button_press_time, produced>>
obsVars == <<last_io, sw_last, stale_ops>>
clickVars == <<click_count, click_timer, sample, emitted>>

vars == <<mux_bus, oled_device, animation_config, servo_kit, fixed_servo, mux_servo,
          current_mux_channel, hw_channel, bus_ok, mux_lock, servo_lock,
          current_angle, encoder_pos, mode, running, encoder_running,
          encoder_queue, saved_state, pc, sw_chan, sw_ret, sw_result,
          usa_delta, enc_pc, last_clk_state, button_press_time, produced,
          last_io, sw_last, stale_ops, click_count, click_timer, sample, emitted,
          exit_signal>>

\* ------------------------------------------------------------------ helpers
Max(a, b) == IF a >= b THEN a ELSE b
Min(a, b) == IF a <= b THEN a ELSE b

Sensitivity(m) ==
    CASE m = "direct" -> direct_sensitivity
      [] m = "fine" -> fine_sensitivity
      [] m = "range" -> range_sensitivity

\* max(lo, min(hi, a)) with the limits of the mode.
ClampAngle(m, a) ==
    IF m = "range"
    THEN Max(range_min_angle, Min(range_max_angle, a))
    ELSE Max(min_angle, Min(max_angle, a))

NewAngle(m, pos) == ClampAngle(m, center_angle + pos * Sensitivity(m))

EncoderEvent(t, v) == [type |-> t, value |-> v]

NoSample == [dt |-> FALSE, dur |-> "none", released |-> FALSE]

NoIO == [dev |-> "none", chan |-> None, scope |-> FALSE, ok |-> TRUE]
NoCall == [chan |-> None, writes |-> 0,
           prev_chan |-> None, prev_writes |-> 0, prev_result |-> TRUE]

\* The main thread is between a successful switch to the servo channel and
\* the completion of the switch back to the OLED channel.
ActuatorScope ==
    \/ pc \in {"init_servo_ret", "usa_switched"} /\ sw_result
    \/ pc \in {"sw_entry", "sw_locked"} /\ sw_ret \in {"init_done", "usa_back"}


\* The constructor has returned (the signal handlers are installed).
Constructed ==
    /\ pc \notin {"init_oled", "init_oled_ret", "init_servo", "init_servo_ret",
                  "init_done"}
    /\ ~(pc \in {"sw_entry", "sw_locked"}
         /\ sw_ret \in {"init_oled_ret", "init_servo_ret", "init_done"})

\* --------------------------------------------------------------------- Init
\* The state at the start of __init__, after load_config, load_state and
\* init_multiplexer: init_oled and init_servo are the first actions.
Init ==
    /\ mux_bus \in BOOLEAN
    /\ oled_device = FALSE
    /\ animation_config = FALSE
    /\ servo_kit = FALSE
    /\ fixed_servo = FALSE
    /\ mux_servo = FALSE
    /\ current_mux_channel = None
    /\ hw_channel = None
    /\ bus_ok = TRUE
    /\ mux_lock = "free"
    /\ servo_lock = "free"
    /\ \E st \in PersistedStates :
          /\ saved_state = st
          /\ current_angle = st.last_position
          /\ mode = st.mode
    /\ encoder_pos = 0
    /\ running = FALSE
    /\ encoder_running = FALSE
    /\ encoder_queue = <<>>
    /\ pc = "init_oled"
    /\ sw_chan = None
    /\ sw_ret = "none"
    /\ sw_result = TRUE
    /\ usa_delta = 0
    /\ enc_pc = "off"
    /\ last_clk_state = FALSE
    /\ button_press_time = 0
    /\ produced = 0
    /\ last_io = NoIO
    /\ sw_last = NoCall
    /\ stale_ops = 0
    /\ click_count = 0
    /\ click_timer = FALSE
    /\ sample = NoSample
    /\ emitted = "none"
    /\ exit_signal = "none"

\* -------------------------------------------------------- switch_mux_channel
\* The number of consecutive operations the periodic re-sync of
\* ResilientMuxOLED._with_channel counts before forcing a channel write.
RecoveryOps == 10

\* self.switch_mux_channel(ch), continuing at `ret` when it returns.
Call(ch, ret) ==
    /\ sw_chan' = ch
    /\ sw_ret' = ret
    /\ pc' = "sw_entry"
    /\ UNCHANGED <<sw_result, sw_last, stale_ops>>

\* switch_mux_channel returns `res` after issuing `w` channel-select writes,
\* leaving the cached channel `cur` and the hardware channel `hw`.
Return(res, w, cur, hw) ==
    /\ sw_result' = res
    /\ pc' = sw_ret
    /\ current_mux_channel' = cur
    /\ hw_channel' = hw
    /\ sw_last' = [chan |-> sw_chan, writes |-> w,
                   prev_chan |-> sw_last.chan, prev_writes |-> sw_last.writes,
                   prev_result |-> sw_result]
    /\ stale_ops' = IF mux_bus /\ cur # None /\ hw # cur
                    THEN Min(stale_ops + 1, RecoveryOps)
                    ELSE 0
    /\ sw_ret' = "none"
    /\ sw_chan' = None
    /\ bus_ok' = TRUE

swFrame == <<devVars, servo_lock, posVars, ctlVars, encoder_queue,
             saved_state, usa_delta, encVars, last_io, clickVars,
                   exit_signal>>

\* if not self.mux_bus: return True
SwNoMux ==
    /\ pc = "sw_entry"
    /\ ~mux_bus
    /\ Return(TRUE, 0, current_mux_channel, hw_channel)
    /\ UNCHANGED <<swFrame, mux_lock>>

\* with self.mux_lock:
SwAcquire ==
    /\ pc = "sw_entry"
    /\ mux_bus
    /\ mux_lock = "free"
    /\ mux_lock' = "main"
    /\ pc' = "sw_locked"
    /\ UNCHANGED <<swFrame, bus_ok, current_mux_channel, hw_channel, swVars, obsVars>>

\* if self.current_mux_channel == channel: return True
SwCached ==
    /\ pc = "sw_locked"
    /\ current_mux_channel = sw_chan
    /\ Return(TRUE, 0, current_mux_channel, hw_channel)
    /\ mux_lock' = "free"
    /\ UNCHANGED swFrame

\* Faulty variant of SwWriteOk: the cache is not updated after the write.
SwWriteOkForgetsCache ==
    /\ pc = "sw_locked"
    /\ current_mux_channel # sw_chan
    /\ bus_ok
    /\ Return(TRUE, 1, current_mux_channel, sw_chan)
    /\ mux_lock' = "free"
    /\ UNCHANGED swFrame

\* write_byte succeeds: the cache is updated, True is returned.
SwWriteOk ==
    /\ pc = "sw_locked"
    /\ current_mux_channel # sw_chan
    /\ bus_ok
    /\ Return(TRUE, 1, sw_chan, sw_chan)
    /\ mux_lock' = "free"
    /\ UNCHANGED swFrame

\* Faulty variant of SwWriteFail: the cache is assigned before the write is tried.
SwWriteFailCacheFirst ==
    /\ pc = "sw_locked"
    /\ current_mux_channel # sw_chan
    /\ ~bus_ok
    /\ Return(FALSE, 1, sw_chan, hw_channel)
    /\ mux_lock' = "free"
    /\ UNCHANGED swFrame

\* Faulty variant of SwWriteFail: the lock is acquired and released by hand, and the
\* failure path returns without releasing it.
SwWriteFailKeepsLock ==
    /\ pc = "sw_locked"
    /\ current_mux_channel # sw_chan
    /\ ~bus_ok
    /\ Return(FALSE, 1, current_mux_channel, hw_channel)
    /\ UNCHANGED <<swFrame, mux_lock>>

\* Faulty variant of SwWriteFail: the failed write is retried without a bound
\* on the number of attempts.
SwWriteFailRetriesForever ==
    /\ pc = "sw_locked"
    /\ current_mux_channel # sw_chan
    /\ ~bus_ok
    /\ bus_ok' = TRUE
    /\ UNCHANGED <<swFrame, muxVars, pc, swVars, obsVars>>

\* write_byte raises: the except clause returns False, the cache is untouched;
\* leaving the with block releases the lock.
SwWriteFail ==
    /\ pc = "sw_locked"
    /\ current_mux_channel # sw_chan
    /\ ~bus_ok
    /\ Return(FALSE, 1, current_mux_channel, hw_channel)
    /\ mux_lock' = "free"
    /\ UNCHANGED swFrame

SwitchMuxChannel == SwNoMux \/ SwAcquire \/ SwCached \/ SwWriteOk \/ SwWriteFail

\* -------------------------------------------------------------- constructor
ctorFrame == <<mux_bus, fixed_servo, mux_servo, bus_ok, muxVars, servo_lock, posVars, ctlVars,
               encoder_queue, saved_state, usa_delta, encVars, clickVars,
                   exit_signal>>

\* init_oled: switch to the OLED channel first.
InitOled ==
    /\ pc = "init_oled"
    /\ Call(OLED_CHANNEL, "init_oled_ret")
    /\ UNCHANGED <<ctorFrame, oled_device, animation_config, servo_kit, last_io>>

\* init_oled after the switch: return if it failed; else create the device,
\* the animation configuration and the animation, any of which may raise.
InitOledDevice ==
    /\ pc = "init_oled_ret"
    /\ IF ~sw_result
       THEN UNCHANGED <<oled_device, animation_config>>
       ELSE \E outcome \in {"ok", "device_failed", "animation_failed"} :
               /\ oled_device' = (outcome = "ok")
               /\ animation_config' = (outcome # "device_failed")
    /\ pc' = "init_servo"
    /\ UNCHANGED <<ctorFrame, servo_kit, swVars, obsVars>>

\* init_servo: switch to the servo channel first.
InitServo ==
    /\ pc = "init_servo"
    /\ Call(SERVO_CHANNEL, "init_servo_ret")
    /\ UNCHANGED <<ctorFrame, oled_device, animation_config, servo_kit, last_io>>

\* init_servo returns at once when the switch failed.
InitServoSkip ==
    /\ pc = "init_servo_ret"
    /\ ~sw_result
    /\ pc' = "run"
    /\ UNCHANGED <<ctorFrame, oled_device, animation_config, servo_kit, swVars, obsVars>>

\* init_servo's try block: ServoKit(...) and the initial angle write; either
\* may raise, which disables the servo. Then "Return to OLED channel".
InitServoDevice ==
    /\ pc = "init_servo_ret"
    /\ sw_result
    /\ \E outcome \in {"ok", "kit_failed", "write_failed"} :
          /\ servo_kit' = (outcome = "ok")
          /\ last_io' = IF outcome = "kit_failed"
                        THEN last_io
                        ELSE [dev |-> "servo", chan |-> hw_channel,
                              scope |-> ActuatorScope, ok |-> (outcome = "ok")]
    /\ Call(OLED_CHANNEL, "init_done")
    /\ UNCHANGED <<ctorFrame, oled_device, animation_config>>

InitDone ==
    /\ pc = "init_done"
    /\ pc' = "run"
    /\ last_io' = NoIO
    /\ UNCHANGED <<ctorFrame, oled_device, animation_config, servo_kit, swVars,
                   sw_last, stale_ops>>

Constructor ==
    InitOled \/ InitOledDevice \/ InitServo \/ InitServoSkip
    \/ InitServoDevice \/ InitDone


\* ---------------------------------------------------------------------- run
loopFrame == <<devVars, bus_ok, muxVars, servo_lock, encVars, clickVars,
                   exit_signal>>

\* run(): set the flags, start the polling thread (which reads CLK once),
\* then frame_time = 1.0 / self.animation_config.fps, which raises
\* AttributeError when init_oled left animation_config None: run() is left by
\* the exception, without shutdown(), and the process ends.
RunStart ==
    /\ pc = "run"
    /\ running' = TRUE
    /\ encoder_running' = TRUE
    /\ IF animation_config
       THEN /\ pc' = "loop"
            /\ enc_pc' = "poll"
            /\ \E clk \in BOOLEAN : last_clk_state' = clk
       ELSE /\ pc' = "crashed"
            /\ enc_pc' = "exit"
            /\ UNCHANGED last_clk_state
    /\ UNCHANGED <<devVars, bus_ok, muxVars, servo_lock, posVars, encoder_queue,
                   saved_state, swVars, usa_delta, button_press_time, produced,
                   obsVars, clickVars,
                   exit_signal>>

\* while self.running: a new tick starts (or the loop ends); what the last
\* tick observed is forgotten.
LoopCheck ==
    /\ pc = "loop"
    /\ pc' = IF running THEN "drain" ELSE "shutdown"
    /\ last_io' = NoIO
    /\ sw_last' = NoCall
    /\ sw_result' = TRUE
    /\ UNCHANGED <<loopFrame, posVars, ctlVars, encoder_queue, saved_state,
                   sw_chan, sw_ret, usa_delta, stale_ops>>

\* ---------------------------------------------------- process_encoder_events
\* get_nowait raises Empty: the drain ends.
DrainEmpty ==
    /\ pc = "drain"
    /\ encoder_queue = <<>>
    /\ pc' = "oled"
    /\ UNCHANGED <<loopFrame, posVars, ctlVars, encoder_queue, saved_state,
                   swVars, usa_delta, obsVars>>

DrainRotation ==
    /\ pc = "drain"
    /\ encoder_queue # <<>>
    /\ Head(encoder_queue).type = "rotation"
    /\ encoder_queue' = Tail(encoder_queue)
    /\ usa_delta' = Head(encoder_queue).value
    /\ pc' = "usa_entry"
    /\ UNCHANGED <<loopFrame, posVars, ctlVars, saved_state, swVars, obsVars>>

\* click: self.encoder_pos = 0; self.update_servo_angle(0)
DrainClick ==
    /\ pc = "drain"
    /\ encoder_queue # <<>>
    /\ Head(encoder_queue).type = "click"
    /\ encoder_queue' = Tail(encoder_queue)
    /\ encoder_pos' = 0
    /\ usa_delta' = 0
    /\ pc' = "usa_entry"
    /\ UNCHANGED <<loopFrame, current_angle, mode, ctlVars, saved_state, swVars,
                   obsVars>>

\* save_state writes {last_position, mode, timestamp}.
SavedNow == [present |-> TRUE, last_position |-> current_angle, mode |-> mode]

\* long_press: self.save_state()
DrainLongPress ==
    /\ pc = "drain"
    /\ encoder_queue # <<>>
    /\ Head(encoder_queue).type = "long_press"
    /\ encoder_queue' = Tail(encoder_queue)
    /\ saved_state' = SavedNow
    /\ UNCHANGED <<loopFrame, posVars, ctlVars, pc, swVars, usa_delta, obsVars>>

ProcessEncoderEvents == DrainEmpty \/ DrainRotation \/ DrainClick \/ DrainLongPress

\* -------------------------------------------------------- update_servo_angle
usaFrame == <<devVars, bus_ok, muxVars, mode, ctlVars, encoder_queue,
              saved_state, encVars, clickVars,
                   exit_signal>>

\* if not self.servo_kit: return
UsaNoServo ==
    /\ pc = "usa_entry"
    /\ ~servo_kit
    /\ pc' = "drain"
    /\ usa_delta' = 0
    /\ UNCHANGED <<usaFrame, servo_lock, current_angle, encoder_pos, swVars, obsVars>>

\* with self.servo_lock:
UsaAcquire ==
    /\ pc = "usa_entry"
    /\ servo_kit
    /\ servo_lock = "free"
    /\ servo_lock' = "main"
    /\ pc' = "usa_locked"
    /\ UNCHANGED <<usaFrame, usa_delta, current_angle, encoder_pos, swVars, obsVars>>

\* The angle changed: store it and switch to the servo channel (still holding
\* servo_lock).
UsaChanged ==
    /\ pc = "usa_locked"
    /\ encoder_pos' = encoder_pos + usa_delta
    /\ NewAngle(mode, encoder_pos') # current_angle
    /\ current_angle' = NewAngle(mode, encoder_pos')
    /\ usa_delta' = 0
    /\ Call(SERVO_CHANNEL, "usa_switched")
    /\ UNCHANGED <<usaFrame, servo_lock, last_io>>

\* The angle did not change: nothing is written.
UsaUnchanged ==
    /\ pc = "usa_locked"
    /\ encoder_pos' = encoder_pos + usa_delta
    /\ NewAngle(mode, encoder_pos') = current_angle
    /\ usa_delta' = 0
    /\ servo_lock' = "free"
    /\ pc' = "drain"
    /\ UNCHANGED <<usaFrame, current_angle, swVars, obsVars>>

\* The switch to the servo channel failed: no write, no switch back.
UsaSkip ==
    /\ pc = "usa_switched"
    /\ ~sw_result
    /\ servo_lock' = "free"
    /\ pc' = "drain"
    /\ UNCHANGED <<usaFrame, usa_delta, current_angle, encoder_pos, swVars, obsVars>>

\* Faulty variant of UsaWrite: the result of the switch to the servo channel is not
\* looked at.
UsaWriteUnguarded ==
    /\ pc = "usa_switched"
    /\ \E ok \in BOOLEAN :
          last_io' = [dev |-> "servo", chan |-> hw_channel,
                      scope |-> ActuatorScope, ok |-> ok]
    /\ Call(OLED_CHANNEL, "usa_back")
    /\ UNCHANGED <<usaFrame, usa_delta, servo_lock, current_angle, encoder_pos>>

\* Faulty variant of UsaWrite: the switch back is not in a finally clause, and a write
\* that raises skips it.
UsaWriteNoFinally ==
    /\ pc = "usa_switched"
    /\ sw_result
    /\ \E ok \in BOOLEAN :
          /\ last_io' = [dev |-> "servo", chan |-> hw_channel,
                         scope |-> ActuatorScope, ok |-> ok]
          /\ IF ok
             THEN Call(OLED_CHANNEL, "usa_back")
             ELSE /\ pc' = "usa_back"
                  /\ UNCHANGED <<swVars, sw_last, stale_ops>>
    /\ UNCHANGED <<usaFrame, usa_delta, servo_lock, current_angle, encoder_pos>>

\* The angle write (it may raise, which is caught), then finally: the switch
\* back to the OLED channel.
UsaWrite ==
    /\ pc = "usa_switched"
    /\ sw_result
    /\ \E ok \in BOOLEAN :
          last_io' = [dev |-> "servo", chan |-> hw_channel,
                      scope |-> ActuatorScope, ok |-> ok]
    /\ Call(OLED_CHANNEL, "usa_back")
    /\ UNCHANGED <<usaFrame, usa_delta, servo_lock, current_angle, encoder_pos>>

\* Leaving the with block releases servo_lock.
UsaBack ==
    /\ pc = "usa_back"
    /\ servo_lock' = "free"
    /\ pc' = "drain"
    /\ last_io' = NoIO
    /\ UNCHANGED <<usaFrame, usa_delta, current_angle, encoder_pos, swVars, sw_last,
                   stale_ops>>

UpdateServoAngle ==
    UsaNoServo \/ UsaAcquire \/ UsaChanged \/ UsaUnchanged \/ UsaSkip
    \/ UsaWrite \/ UsaBack

\* --------------------------------------------------------- update_oled_frame
oledFrame == <<loopFrame, posVars, ctlVars, encoder_queue, saved_state, usa_delta>>

\* if not self.oled_device or not self.animation: return
OledNoDevice ==
    /\ pc = "oled"
    /\ ~oled_device
    /\ pc' = "loop"
    /\ UNCHANGED <<oledFrame, swVars, obsVars>>

\* Faulty variant of OledSwitch: the frame update relies on the servo path having
\* returned the multiplexer to the OLED channel.
OledSwitchAssumed ==
    /\ pc = "oled"
    /\ oled_device
    /\ pc' = "oled_ret"
    /\ UNCHANGED <<oledFrame, swVars, obsVars>>

\* "Ensure we're on OLED channel"
OledSwitch ==
    /\ pc = "oled"
    /\ oled_device
    /\ Call(OLED_CHANNEL, "oled_ret")
    /\ UNCHANGED <<oledFrame, last_io>>

\* if not self.switch_mux_channel(OLED_CHANNEL): return
OledSkip ==
    /\ pc = "oled_ret"
    /\ ~sw_result
    /\ pc' = "loop"
    /\ UNCHANGED <<oledFrame, swVars, obsVars>>

\* Faulty variant of OledDisplay: after a frame the tick goes back to render
\* another one (a catch-up render).
OledDisplayCatchUp ==
    /\ pc = "oled_ret"
    /\ sw_result
    /\ \E ok \in BOOLEAN :
          last_io' = [dev |-> "frame", chan |-> hw_channel,
                      scope |-> ActuatorScope, ok |-> ok]
    /\ pc' = IF last_io.dev = "frame" THEN "loop" ELSE "oled"
    /\ UNCHANGED <<oledFrame, swVars, sw_last, stale_ops>>

\* self.oled_device.display(image); an exception is caught and printed.
OledDisplay ==
    /\ pc = "oled_ret"
    /\ sw_result
    /\ \E ok \in BOOLEAN :
          last_io' = [dev |-> "frame", chan |-> hw_channel,
                      scope |-> ActuatorScope, ok |-> ok]
    /\ pc' = "loop"
    /\ UNCHANGED <<oledFrame, swVars, sw_last, stale_ops>>

UpdateOledFrame == OledNoDevice \/ OledSwitch \/ OledSkip \/ OledDisplay

\* ------------------------------------------------------------------ shutdown
\* Faulty variant of ShutdownSave: the state is not saved at shutdown.
ShutdownSaveSkipped ==
    /\ pc = "shutdown"
    /\ running' = FALSE
    /\ encoder_running' = FALSE
    /\ IF oled_device
       THEN Call(OLED_CHANNEL, "sd_clear")
       ELSE /\ pc' = "sd_close"
            /\ UNCHANGED <<swVars, sw_last, stale_ops>>
    /\ UNCHANGED <<loopFrame, posVars, encoder_queue, usa_delta, last_io, saved_state>>

\* shutdown(): clear the flags, join the polling thread (for at most 1 s),
\* save the state, then clear the display after a switch whose result is
\* not looked at.
ShutdownSave ==
    /\ pc = "shutdown"
    /\ running' = FALSE
    /\ encoder_running' = FALSE
    /\ saved_state' = SavedNow
    /\ IF oled_device
       THEN Call(OLED_CHANNEL, "sd_clear")
       ELSE /\ pc' = "sd_close"
            /\ UNCHANGED <<swVars, sw_last, stale_ops>>
    /\ UNCHANGED <<loopFrame, posVars, encoder_queue, usa_delta, last_io>>

ShutdownClear ==
    /\ pc = "sd_clear"
    /\ \E ok \in BOOLEAN :
          last_io' = [dev |-> "clear", chan |-> hw_channel,
                      scope |-> ActuatorScope, ok |-> ok]
    /\ pc' = "sd_close"
    /\ UNCHANGED <<oledFrame, swVars, sw_last, stale_ops>>

\* self.mux_bus.close(); run() returns.
ShutdownClose ==
    /\ pc = "sd_close"
    /\ pc' = "done"
    /\ UNCHANGED <<oledFrame, swVars, obsVars>>

Shutdown == ShutdownSave \/ ShutdownClear \/ ShutdownClose

\* signal_handler: self.running = False
SignalHandler ==
    /\ Constructed
    /\ pc \notin {"done", "crashed"}
    /\ running
    /\ running' = FALSE
    /\ UNCHANGED <<devVars, bus_ok, muxVars, servo_lock, posVars, encoder_running,
                   encoder_queue, saved_state, pc, swVars, usa_delta, encVars,
                   obsVars, clickVars,
                   exit_signal>>

\* ---------------------------------------------------- encoder_polling_thread
encFrame == <<devVars, bus_ok, muxVars, servo_lock, posVars, ctlVars,
              saved_state, pc, swVars, usa_delta, obsVars, clickVars,
                   exit_signal>>

\* The rotation decode of one poll: a high -> low transition of CLK enqueues
\* a rotation, +1 when DT differs from the new CLK level, else -1.
RotationEvents(last, clk_state, dt) ==
    IF clk_state # last /\ clk_state = FALSE
    THEN << EncoderEvent("rotation", IF dt # clk_state THEN 1 ELSE -1) >>
    ELSE << >>

\* The button decode of one poll: at the release, the duration decides
\* between long_press and click. `long` is time.time() - button_press_time > 1.0.
ButtonEvents(press_time, sw, long) ==
    IF ~sw /\ press_time > 0
    THEN << IF long THEN EncoderEvent("long_press", 0) ELSE EncoderEvent("click", 0) >>
    ELSE << >>

\* One iteration of the polling loop, on the sampled levels of CLK, DT, SW
\* and the time that has passed since the press.
EncPoll ==
    /\ enc_pc = "poll"
    /\ encoder_running
    /\ \E clk_state \in BOOLEAN, dt \in BOOLEAN, sw \in BOOLEAN, long \in BOOLEAN :
          LET events == RotationEvents(last_clk_state, clk_state, dt)
                        \o ButtonEvents(button_press_time, sw, long)
          IN  /\ produced < MaxEvents
              /\ produced + Len(events) <= MaxEvents
              /\ encoder_queue' = encoder_queue \o events
              /\ produced' = produced + Len(events)
              /\ last_clk_state' = clk_state
              /\ button_press_time' = IF sw THEN 1 ELSE 0
    /\ UNCHANGED <<encFrame, enc_pc>>

\* while self.encoder_running: ends the thread once the flag is cleared.
EncExit ==
    /\ enc_pc = "poll"
    /\ ~encoder_running
    /\ enc_pc' = "exit"
    /\ last_clk_state' = FALSE
    /\ button_press_time' = 0
    /\ UNCHANGED <<encFrame, encoder_queue, produced>>

EncoderPollingThread == EncPoll \/ EncExit

\* The sum of the rotation values waiting in the queue.
RECURSIVE QueuedRotation(_)
QueuedRotation(q) ==
    IF q = << >> THEN 0
    ELSE (IF Head(q).type = "rotation" THEN Head(q).value ELSE 0)
         + QueuedRotation(Tail(q))

\* The main thread is in a phase that lasts milliseconds, so that polls of the
\* 1 ms polling loop fall into it: the sleep that ends a tick, the display
\* write, and a channel-select write with its 2 ms stabilisation delay. (The
\* rest of the drain loop takes microseconds per event.)
SlowPhase ==
    \/ pc \in {"loop", "oled_ret"}
    \/ pc = "sw_locked" /\ current_mux_channel # sw_chan

\* One iteration of the polling loop when the encoder never comes to rest:
\* EncPoll without a limit on the events of the run, for an encoder that is
\* turned (or whose contacts chatter) while the button is not touched. The
\* stream is followed while at most MaxQueued events wait and the position it
\* leads to stays within MaxStreamPos of the centre.
EncPollStream ==
    /\ enc_pc = "poll"
    /\ encoder_running
    /\ SlowPhase
    /\ \E clk_state \in BOOLEAN, dt \in BOOLEAN :
          LET events == RotationEvents(last_clk_state, clk_state, dt)
                        \o ButtonEvents(button_press_time, FALSE, FALSE)
              ahead == encoder_pos + usa_delta
                       + QueuedRotation(encoder_queue \o events)
          IN  /\ Len(encoder_queue) + Len(events) <= MaxQueued
              /\ ahead >= -MaxStreamPos
              /\ ahead <= MaxStreamPos
              /\ encoder_queue' = encoder_queue \o events
              /\ last_clk_state' = clk_state
              /\ button_press_time' = 0
    /\ UNCHANGED <<encFrame, enc_pc, produced>>

\* -------------------------------------------------------------- environment
envFrame == <<devVars, current_mux_channel, mux_lock, servo_lock, posVars, ctlVars,
              encoder_queue, saved_state, pc, swVars, usa_delta, encVars, obsVars, clickVars,
                   exit_signal>>

\* The I2C bus fails for the channel-select write that is about to be issued.
BusFail ==
    /\ pc = "sw_locked"
    /\ current_mux_channel # sw_chan
    /\ bus_ok
    /\ bus_ok' = FALSE
    /\ UNCHANGED <<envFrame, hw_channel>>

\* Another process writes a channel-select byte to the multiplexer while the
\* controller's cache agrees with the hardware.
OutOfBand ==
    /\ mux_bus
    /\ pc \notin {"done", "crashed"}
    /\ current_mux_channel # None
    /\ hw_channel = current_mux_channel
    /\ \E ch \in {OLED_CHANNEL, SERVO_CHANNEL} \ {hw_channel} : hw_channel' = ch
    /\ UNCHANGED <<envFrame, bus_ok>>

\* ----------------------------------------------------------- specifications
MainThread ==
    Constructor \/ SwitchMuxChannel \/ RunStart \/ LoopCheck
    \/ ProcessEncoderEvents \/ UpdateServoAngle \/ UpdateOledFrame \/ Shutdown

Next == MainThread \/ SignalHandler \/ EncoderPollingThread \/ BusFail

Spec == Init /\ [][Next]_vars

\* The main thread is always scheduled again.
FairSpec == Spec /\ WF_vars(MainThread)

\* With another process on the bus.
NextOob == Next \/ OutOfBand

SpecOob == Init /\ [][NextOob]_vars

\* With an encoder that keeps producing rotation events for as long as the
\* program runs (no click or long press is ever queued); the main thread is
\* always scheduled again.
StreamMainThread ==
    Constructor \/ SwitchMuxChannel \/ RunStart \/ LoopCheck
    \/ DrainEmpty \/ DrainRotation \/ UpdateServoAngle \/ UpdateOledFrame
    \/ Shutdown

NextStream == StreamMainThread \/ SignalHandler \/ EncPollStream \/ EncExit \/ BusFail

SpecStream == Init /\ [][NextStream]_vars /\ WF_vars(StreamMainThread)


\* ===================================================== ScreenTiltController
\* The controller with the fixed servo wrapper (fixed_servo is a
\* ServoKitWithMux) or, when its initialisation returned None, without a servo.
TiltSensitivity(m) ==
    CASE m = "direct" -> tilt_direct_sensitivity
      [] m = "fine" -> tilt_fine_sensitivity
      [] m = "range" -> tilt_range_sensitivity

\* update_servo: center_angle + encoder_pos * sensitivity, clamped to the
\* limits of the mode.
TiltNewAngle(m, pos) == ClampAngle(m, tilt_center_angle + pos * TiltSensitivity(m))

\* Contents of the controller's position_state.json at start-up.
NoTiltState == [present |-> FALSE, last_position |-> tilt_center_angle, mode |-> "direct"]
TiltPersistedStates ==
    { NoTiltState,
      [present |-> TRUE, last_position |-> 175, mode |-> "range"] }

tiltCore == <<devVars, current_mux_channel, bus_ok, mux_lock, servo_lock, ctlVars,
              encoder_queue, sw_chan, sw_ret, usa_delta, enc_pc, sw_last, stale_ops>>
tiltFrame == <<tiltCore, exit_signal>>

\* __init__ after load_config, load_state and the servo initialisation:
\* initialize_servo_with_mux either returned a wrapper, having left the
\* multiplexer on the OLED channel, or None.
TiltInit ==
    /\ mux_bus = TRUE
    /\ oled_device = FALSE
    /\ animation_config = FALSE
    /\ servo_kit = FALSE
    /\ fixed_servo \in BOOLEAN
    /\ mux_servo = FALSE
    /\ current_mux_channel = None
    /\ hw_channel = OLED_CHANNEL
    /\ bus_ok = TRUE
    /\ mux_lock = "free"
    /\ servo_lock = "free"
    /\ \E st \in TiltPersistedStates :
          /\ saved_state = st
          /\ current_angle = st.last_position
          /\ mode = st.mode
    /\ encoder_pos = 0
    /\ running = FALSE
    /\ encoder_running = FALSE
    /\ encoder_queue = <<>>
    /\ pc = "tilt_init"
    /\ sw_chan = None
    /\ sw_ret = "none"
    /\ sw_result = TRUE
    /\ usa_delta = 0
    /\ enc_pc = "off"
    /\ last_clk_state \in BOOLEAN
    /\ button_press_time = 0
    /\ produced = 0
    /\ last_io = NoIO
    /\ sw_last = NoCall
    /\ stale_ops = 0
    /\ click_count = 0
    /\ click_timer = FALSE
    /\ sample = NoSample
    /\ emitted = "none"
    /\ exit_signal = "none"

\* if self.fixed_servo: set_angle ... elif self.mux_servo: set_servo_angle:
\* where control goes for a servo write, by the wrapper in use.
ServoCall ==
    IF fixed_servo THEN "fs_ensure"
    ELSE IF mux_servo THEN "ms_select"
    ELSE "tilt_poll"

\* "Set initial position (if servo is connected)"; the button handlers are
\* attached after it.
InitialPosition ==
    /\ pc = "tilt_init"
    /\ pc' = ServoCall
    /\ UNCHANGED <<tiltFrame, hw_channel, posVars, saved_state, sw_result,
                   last_clk_state, button_press_time, produced, last_io, clickVars>>

\* update_servo with encoder_pos already set to pos: current_angle becomes the
\* clamped angle and, when that changed it, fixed_servo.set_angle is called.
UpdateServo(pos) ==
    LET new_angle == TiltNewAngle(mode, pos)
    IN  /\ current_angle' = new_angle
        /\ pc' = IF new_angle # current_angle THEN ServoCall ELSE "tilt_poll"

\* Faulty variant of CheckEncoder: the direction test is inverted.
CheckEncoderSwapped ==
    /\ pc = "tilt_poll"
    /\ \E clk_state \in BOOLEAN, dt \in BOOLEAN :
          /\ IF clk_state # last_clk_state /\ clk_state = FALSE
             THEN /\ produced < MaxTiltInputs
                  /\ produced' = produced + 1
                  /\ encoder_pos' = encoder_pos + (IF dt = clk_state THEN 1 ELSE -1)
                  /\ UpdateServo(encoder_pos')
                  /\ sample' = [NoSample EXCEPT !.dt = dt]
             ELSE /\ UNCHANGED <<encoder_pos, current_angle, pc, produced>>
                  /\ sample' = NoSample
          /\ last_clk_state' = clk_state
    /\ emitted' = "none"
    /\ last_io' = NoIO
    /\ sw_result' = TRUE
    /\ UNCHANGED <<tiltFrame, hw_channel, mode, saved_state, button_press_time,
                   click_count, click_timer>>

\* check_encoder, one poll of the run loop: a high -> low transition of the
\* CLK sample moves encoder_pos by the DT sample and calls update_servo.
CheckEncoder ==
    /\ pc = "tilt_poll"
    /\ \E clk_state \in BOOLEAN, dt \in BOOLEAN :
          /\ IF clk_state # last_clk_state /\ clk_state = FALSE
             THEN /\ produced < MaxTiltInputs
                  /\ produced' = produced + 1
                  /\ encoder_pos' = encoder_pos + (IF dt # clk_state THEN 1 ELSE -1)
                  /\ UpdateServo(encoder_pos')
                  /\ sample' = [NoSample EXCEPT !.dt = dt]
             ELSE /\ UNCHANGED <<encoder_pos, current_angle, pc, produced>>
                  /\ sample' = NoSample
          /\ last_clk_state' = clk_state
    /\ emitted' = "none"
    /\ last_io' = NoIO
    /\ sw_result' = TRUE
    /\ UNCHANGED <<tiltFrame, hw_channel, mode, saved_state, button_press_time,
                   click_count, click_timer>>

\* ServoKitWithMux.ensure_mux_channel: one channel-select write; a failure is
\* swallowed (except: pass). sw_result records whether the write succeeded.
EnsureMuxChannel ==
    /\ pc = "fs_ensure"
    /\ \E ok \in BOOLEAN :
          /\ hw_channel' = IF ok THEN SERVO_CHANNEL ELSE hw_channel
          /\ sw_result' = ok
    /\ pc' = "fs_write"
    /\ UNCHANGED <<tiltFrame, posVars, saved_state, last_clk_state,
                   button_press_time, produced, last_io, clickVars>>

\* ServoKitWithMux.set_angle after ensure_mux_channel returned: the angle
\* write, which may raise (caught: return False).
SetAngleWrite ==
    /\ pc = "fs_write"
    /\ \E ok \in BOOLEAN :
          last_io' = [dev |-> "servo", chan |-> hw_channel,
                      scope |-> sw_result, ok |-> ok]
    /\ pc' = "fs_finally"
    /\ UNCHANGED <<tiltFrame, hw_channel, posVars, saved_state, sw_result,
                   last_clk_state, button_press_time, produced, clickVars>>

\* save_state writes {last_position, mode, timestamp}.
TiltSavedNow == [present |-> TRUE, last_position |-> current_angle, mode |-> mode]

\* finally: "ALWAYS return to OLED channel, even on error"; a failure of the
\* write is swallowed. An exit exception that was propagating goes on to the
\* caller afterwards: the loop ends and the state is saved.
SetAngleFinally ==
    /\ pc = "fs_finally"
    /\ \E ok \in BOOLEAN :
          hw_channel' = IF ok THEN OLED_CHANNEL ELSE hw_channel
    /\ IF exit_signal = "raised"
       THEN /\ pc' = "tilt_done"
            /\ saved_state' = TiltSavedNow
       ELSE /\ pc' = "tilt_poll"
            /\ UNCHANGED saved_state
    /\ UNCHANGED <<tiltFrame, posVars, sw_result, last_clk_state,
                   button_press_time, produced, last_io, clickVars>>

\* run(): KeyboardInterrupt ends the loop; save_state writes the position.
\* (In startup-scripts/screen-tilt.py the signal handler saves the state and
\* raises SystemExit, and main's finally clause saves it again.)
KeyboardInterrupt ==
    /\ pc = "tilt_poll"
    /\ saved_state' = TiltSavedNow
    /\ pc' = "tilt_done"
    /\ exit_signal' = "raised"
    /\ UNCHANGED <<tiltCore, hw_channel, posVars, sw_result, last_clk_state,
                   button_press_time, produced, last_io, clickVars>>

\* The termination signal arrives while the main thread is in
\* ensure_mux_channel: the handler saves the state and raises the exit
\* exception. Raised inside the try block (before or after the channel-select
\* write) it is caught by "except: pass" and set_angle carries on; raised
\* before the try block is entered it propagates to the finally clause of
\* set_angle.
SignalInEnsure ==
    /\ pc = "fs_ensure"
    /\ exit_signal = "none"
    /\ saved_state' = TiltSavedNow
    /\ \/ /\ exit_signal' = "swallowed"
          /\ \E written \in BOOLEAN :
                /\ hw_channel' = IF written THEN SERVO_CHANNEL ELSE hw_channel
                /\ sw_result' = written
          /\ pc' = "fs_write"
       \/ /\ exit_signal' = "raised"
          /\ pc' = "fs_finally"
          /\ UNCHANGED <<hw_channel, sw_result>>
    /\ UNCHANGED <<tiltCore, posVars, last_clk_state, button_press_time, produced,
                   last_io, clickVars>>

\* The signal arrives during the angle write or the delay after it: the exit
\* exception is not an Exception, so "except Exception" lets it pass and the
\* finally clause runs next; the angle write has happened or not.
SignalInWrite ==
    /\ pc = "fs_write"
    /\ exit_signal = "none"
    /\ saved_state' = TiltSavedNow
    /\ exit_signal' = "raised"
    /\ \/ UNCHANGED last_io
       \/ last_io' = [dev |-> "servo", chan |-> hw_channel,
                      scope |-> sw_result, ok |-> TRUE]
    /\ pc' = "fs_finally"
    /\ UNCHANGED <<tiltCore, hw_channel, posVars, sw_result, last_clk_state,
                   button_press_time, produced, clickVars>>

\* The signal arrives inside the try block of the finally clause: the exit
\* exception is caught by "except: pass", with the switch back to the OLED
\* channel written or not, and set_angle returns normally.
SignalInFinally ==
    /\ pc = "fs_finally"
    /\ exit_signal = "none"
    /\ saved_state' = TiltSavedNow
    /\ exit_signal' = "swallowed"
    /\ \E written \in BOOLEAN :
          hw_channel' = IF written THEN OLED_CHANNEL ELSE hw_channel
    /\ pc' = "tilt_poll"
    /\ UNCHANGED <<tiltCore, posVars, sw_result, last_clk_state,
                   button_press_time, produced, last_io, clickVars>>

\* How long the button was held when the release callback starts: "short" is
\* at most 0.95 s, "edge" is more than 0.95 s and at most 1.0 s, "long" is
\* more than 1.0 s.
Durations == {"short", "edge", "long"}

\* press_duration > 1.0, measured after time.sleep(0.05): the measured
\* duration is the held time plus the 0.05 s debounce delay.
MeasuredLong(dur) == dur \in {"edge", "long"}

\* Python int() of a / b for b > 0: truncation toward zero.
TruncDiv(a, b) == IF a >= 0 THEN a \div b ELSE -((-a) \div b)

\* modes[(current_idx + 1) % len(modes)] over ['direct', 'fine', 'range'].
NextMode(m) ==
    CASE m = "direct" -> "fine"
      [] m = "fine"   -> "range"
      [] m = "range"  -> "direct"

\* _button_pressed: the press time is recorded.
ButtonPressed ==
    /\ pc = "tilt_poll"
    /\ button_press_time = 0
    /\ produced < MaxTiltInputs
    /\ produced' = produced + 1
    /\ button_press_time' = 1
    /\ sample' = NoSample
    /\ emitted' = "none"
    /\ UNCHANGED <<tiltFrame, hw_channel, posVars, saved_state, pc, sw_result,
                   last_clk_state, last_io, click_count, click_timer>>

\* _handle_long_press: save_state.
HandleLongPress ==
    /\ saved_state' = TiltSavedNow
    /\ emitted' = "long_press"
    /\ UNCHANGED <<click_count, click_timer>>

\* Faulty variant of ButtonReleased: the release is counted as a click before
\* its duration is looked at.
ButtonReleasedCountsFirst ==
    /\ pc = "tilt_poll"
    /\ button_press_time = 1
    /\ \E dur \in Durations, released \in BOOLEAN :
          /\ MeasuredLong(dur) => ~click_timer
          /\ sample' = [dt |-> FALSE, dur |-> dur, released |-> released]
          /\ IF released
             THEN /\ button_press_time' = 0
                  /\ click_count' = click_count + 1
                  /\ click_timer' = TRUE
                  /\ IF MeasuredLong(dur)
                     THEN /\ saved_state' = TiltSavedNow
                          /\ emitted' = "long_press"
                     ELSE /\ emitted' = "none"
                          /\ UNCHANGED saved_state
             ELSE /\ emitted' = "none"
                  /\ UNCHANGED <<button_press_time, click_count, click_timer,
                                 saved_state>>
    /\ UNCHANGED <<tiltFrame, hw_channel, posVars, pc, sw_result, last_clk_state,
                   last_io, produced>>

\* _button_released: after the 0.05 s debounce delay, a button that still
\* reads pressed is ignored; otherwise a measured duration above 1.0 s is a
\* long press, and anything else counts one click and (re)starts the 0.3 s
\* timer of _process_clicks.
\* A timer that is still pending was started by the release before this
\* press, less than 0.3 s ago, so this press has lasted less than 0.3 s: a
\* press measured as long finds the timer already run.
ButtonReleased ==
    /\ pc = "tilt_poll"
    /\ button_press_time = 1
    /\ \E dur \in Durations, released \in BOOLEAN :
          /\ MeasuredLong(dur) => ~click_timer
          /\ sample' = [dt |-> FALSE, dur |-> dur, released |-> released]
          /\ IF released
             THEN /\ button_press_time' = 0
                  /\ IF MeasuredLong(dur)
                     THEN HandleLongPress
                     ELSE /\ click_count' = click_count + 1
                          /\ click_timer' = TRUE
                          /\ emitted' = "none"
                          /\ UNCHANGED saved_state
             ELSE /\ emitted' = "none"
                  /\ UNCHANGED <<button_press_time, click_count, click_timer,
                                 saved_state>>
    /\ UNCHANGED <<tiltFrame, hw_channel, posVars, pc, sw_result, last_clk_state,
                   last_io, produced>>

\* _handle_single_click: "Reset to center".
HandleSingleClick ==
    /\ encoder_pos' = 0
    /\ UpdateServo(0)
    /\ emitted' = "click"
    /\ UNCHANGED mode

\* Faulty variant of HandleDoubleClick: the position is reset and the servo
\* updated instead of the position being recomputed from the angle.
HandleDoubleClickResets ==
    /\ mode' = NextMode(mode)
    /\ encoder_pos' = 0
    /\ current_angle' = TiltNewAngle(mode', 0)
    /\ emitted' = "double_click"
    /\ UNCHANGED pc

\* _handle_double_click: "Cycle through modes"; encoder_pos is recomputed
\* from the angle with int(), current_angle is left as it is.
HandleDoubleClick ==
    /\ mode' = NextMode(mode)
    /\ encoder_pos' = TruncDiv(current_angle - tilt_center_angle,
                               TiltSensitivity(mode'))
    /\ emitted' = "double_click"
    /\ UNCHANGED <<current_angle, pc>>

\* Faulty variant of ProcessClicks: the click count is not reset after the
\* clicks were handled.
ProcessClicksKeepsCount ==
    /\ pc = "tilt_poll"
    /\ click_timer
    /\ click_timer' = FALSE
    /\ click_count' = click_count
    /\ CASE click_count = 1 -> HandleSingleClick
         [] click_count = 2 -> HandleDoubleClick
         [] OTHER -> /\ emitted' = "none"
                     /\ UNCHANGED <<posVars, pc>>
    /\ sample' = NoSample
    /\ last_io' = NoIO
    /\ sw_result' = TRUE
    /\ UNCHANGED <<tiltFrame, hw_channel, saved_state, last_clk_state,
                   button_press_time, produced>>

\* Faulty variant of ProcessClicks: the count is compared one too low, so a
\* single counted click is handled as a double click.
ProcessClicksOffByOne ==
    /\ pc = "tilt_poll"
    /\ click_timer
    /\ click_timer' = FALSE
    /\ click_count' = 0
    /\ CASE click_count = 0 -> HandleSingleClick
         [] click_count = 1 -> HandleDoubleClick
         [] OTHER -> /\ emitted' = "none"
                     /\ UNCHANGED <<posVars, pc>>
    /\ sample' = NoSample
    /\ last_io' = NoIO
    /\ sw_result' = TRUE
    /\ UNCHANGED <<tiltFrame, hw_channel, saved_state, last_clk_state,
                   button_press_time, produced>>

\* _process_clicks, run by the timer 0.3 s after the last counted release.
ProcessClicks ==
    /\ pc = "tilt_poll"
    /\ click_timer
    /\ click_timer' = FALSE
    /\ click_count' = 0
    /\ CASE click_count = 1 -> HandleSingleClick
         [] click_count = 2 -> HandleDoubleClick
         [] OTHER -> /\ emitted' = "none"
                     /\ UNCHANGED <<posVars, pc>>
    /\ sample' = NoSample
    /\ last_io' = NoIO
    /\ sw_result' = TRUE
    /\ UNCHANGED <<tiltFrame, hw_channel, saved_state, last_clk_state,
                   button_press_time, produced>>

\* ---------------------------------------------------------- MuxAwareServoKit
\* The controller with the mux-aware wrapper (fixed_servo is None, mux_servo
\* is an initialised MuxAwareServoKit): initialize and configure_servo have
\* run, the latter leaving the multiplexer on the OLED channel unless its
\* return write failed.
MuxServoInit ==
    /\ mux_bus = TRUE
    /\ oled_device = FALSE
    /\ animation_config = FALSE
    /\ servo_kit = FALSE
    /\ fixed_servo = FALSE
    /\ mux_servo = TRUE
    /\ current_mux_channel = None
    /\ hw_channel \in {OLED_CHANNEL, SERVO_CHANNEL}
    /\ bus_ok = TRUE
    /\ mux_lock = "free"
    /\ servo_lock = "free"
    /\ \E st \in TiltPersistedStates :
          /\ saved_state = st
          /\ current_angle = st.last_position
          /\ mode = st.mode
    /\ encoder_pos = 0
    /\ running = FALSE
    /\ encoder_running = FALSE
    /\ encoder_queue = <<>>
    /\ pc = "tilt_init"
    /\ sw_chan = None
    /\ sw_ret = "none"
    /\ sw_result = TRUE
    /\ usa_delta = 0
    /\ enc_pc = "off"
    /\ last_clk_state \in BOOLEAN
    /\ button_press_time = 0
    /\ produced = 0
    /\ last_io = NoIO
    /\ sw_last = NoCall
    /\ stale_ops = 0
    /\ click_count = 0
    /\ click_timer = FALSE
    /\ sample = NoSample
    /\ emitted = "none"
    /\ exit_signal = "none"

\* mux_channel_selected, entering the with block: the channel-select write is
\* inside try ... finally with no except clause, so when it raises the body
\* of the with block is not run and the exception goes on through the
\* finally clause. sw_result records whether the write succeeded.
MuxChannelSelected ==
    /\ pc = "ms_select"
    /\ \E ok \in BOOLEAN :
          /\ hw_channel' = IF ok THEN SERVO_CHANNEL ELSE hw_channel
          /\ sw_result' = ok
          /\ pc' = IF ok THEN "ms_write" ELSE "ms_finally"
    /\ UNCHANGED <<tiltFrame, posVars, saved_state, last_clk_state,
                   button_press_time, produced, last_io, clickVars>>

\* set_servo_angle, the body of the with block: the angle write, which may
\* raise (caught: return False).
SetServoAngle ==
    /\ pc = "ms_write"
    /\ \E ok \in BOOLEAN :
          last_io' = [dev |-> "servo", chan |-> hw_channel,
                      scope |-> sw_result, ok |-> ok]
    /\ pc' = "ms_finally"
    /\ UNCHANGED <<tiltFrame, hw_channel, posVars, saved_state, sw_result,
                   last_clk_state, button_press_time, produced, clickVars>>

\* mux_channel_selected, finally: "Return to OLED channel"; a failure of the
\* write is swallowed. Then set_servo_angle returns, or, when the
\* channel-select write had raised, its exception leaves set_servo_angle
\* ("tilt_raised": it is propagating in the caller, update_servo, which has
\* no handler for it).
MuxChannelReleased ==
    /\ pc = "ms_finally"
    /\ \E ok \in BOOLEAN :
          hw_channel' = IF ok THEN OLED_CHANNEL ELSE hw_channel
    /\ pc' = IF sw_result THEN "tilt_poll" ELSE "tilt_raised"
    /\ UNCHANGED <<tiltFrame, posVars, saved_state, sw_result, last_clk_state,
                   button_press_time, produced, last_io, clickVars>>

TiltNext ==
    \/ InitialPosition
    \/ CheckEncoder
    \/ ButtonPressed
    \/ ButtonReleased
    \/ ProcessClicks
    \/ EnsureMuxChannel
    \/ SetAngleWrite
    \/ SetAngleFinally
    \/ KeyboardInterrupt
    \/ SignalInEnsure
    \/ SignalInWrite
    \/ SignalInFinally

SpecTilt == TiltInit /\ [][TiltNext]_vars

MuxServoNext ==
    \/ InitialPosition
    \/ CheckEncoder
    \/ ButtonPressed
    \/ ButtonReleased
    \/ ProcessClicks
    \/ MuxChannelSelected
    \/ SetServoAngle
    \/ MuxChannelReleased
    \/ KeyboardInterrupt

\* ScreenTiltController driving the servo through MuxAwareServoKit.
SpecMuxServo == MuxServoInit /\ [][MuxServoNext]_vars

\* =================================================================== claims
\* The retry count of ResilientMuxOLED._ensure_channel.
retries == 3

\* A scoped acquisition of the servo channel has just been released: the
\* switch back to the OLED channel has returned.
ScopeReleased == pc \in {"usa_back", "init_done"}

\* C1: every servo angle write is issued inside the scoped acquisition with
\* the multiplexer hardware on the servo channel, and every display frame
\* write is issued outside any such scope with the hardware on the OLED
\* channel.
C1_WritesOnSelectedChannel ==
    /\ last_io.dev = "servo" =>
          /\ last_io.scope
          /\ mux_bus => last_io.chan = SERVO_CHANNEL
    /\ last_io.dev = "frame" =>
          /\ ~last_io.scope
          /\ mux_bus => last_io.chan = OLED_CHANNEL

\* A servo write issued in the loop after the stop signal arrived and while
\* the polling thread has an event queued.
C1_Witness ==
    /\ mux_bus
    /\ last_io.dev = "servo"
    /\ last_io.chan = SERVO_CHANNEL
    /\ pc = "sw_locked"
    /\ ~running
    /\ encoder_queue # << >>

\* C2 as claimed: after the release of every scoped acquisition the cached
\* channel is the OLED channel, whatever the channel-select writes did.
C2_ReleasedOnIdle ==
    (mux_bus /\ ScopeReleased) => current_mux_channel = OLED_CHANNEL

\* C2, amended: after the release of every scoped acquisition the switch back
\* to the OLED channel has been made, whether or not the servo write raised;
\* the cached and the selected channel are the OLED channel if that switch
\* succeeded, and stay the servo channel if its one channel-select write
\* failed.
C2_ReleaseIsBestEffort ==
    (mux_bus /\ ScopeReleased) =>
        /\ sw_last.chan = OLED_CHANNEL
        /\ sw_last.prev_chan = SERVO_CHANNEL
        /\ IF sw_result
           THEN current_mux_channel = OLED_CHANNEL /\ hw_channel = OLED_CHANNEL
           ELSE /\ current_mux_channel = SERVO_CHANNEL
                /\ hw_channel = SERVO_CHANNEL
                /\ sw_last.writes = 1

\* The servo write raised and the multiplexer is back on the OLED channel.
C2_Witness ==
    /\ mux_bus
    /\ pc = "usa_back"
    /\ last_io.dev = "servo"
    /\ ~last_io.ok
    /\ sw_result
    /\ current_mux_channel = OLED_CHANNEL

\* C3: a switch whose channel-select write fails returns False to its caller
\* (control continues at the call site: nothing is raised), with the lock
\* released and the cached channel as it was.
C3_FailedSwitchReturnsFalse ==
    [][ (pc = "sw_locked" /\ current_mux_channel # sw_chan /\ ~bus_ok /\ pc' # pc)
        => /\ pc' = sw_ret
           /\ sw_result' = FALSE
           /\ current_mux_channel' = current_mux_channel
           /\ hw_channel' = hw_channel
           /\ mux_lock' = "free" ]_vars

\* A failed switch to the servo channel has returned to update_servo_angle.
C3_Witness ==
    /\ pc = "usa_switched"
    /\ ~sw_result
    /\ sw_last.chan = SERVO_CHANNEL
    /\ sw_last.writes = 1
    /\ current_mux_channel # SERVO_CHANNEL

\* C4 as claimed: when the switch to the servo channel failed, no servo angle
\* write is issued for that operation, and the channel state (cached and
\* selected channel) is left as it was.
C4_FailedSwitchSkipsWrite ==
    [][ (~sw_result /\ pc \in {"usa_switched", "fs_write"})
        => /\ last_io' = last_io
           /\ hw_channel' = hw_channel
           /\ current_mux_channel' = current_mux_channel ]_vars

\* C5 as claimed: a switch to the cached channel succeeds without a write, and
\* two consecutive switches to the same channel issue at most one write.
C5_AtMostOneWrite ==
    /\ (mux_bus /\ sw_last.chan # None /\ sw_last.writes = 0) => sw_result
    /\ (sw_last.chan # None /\ sw_last.prev_chan = sw_last.chan)
          => sw_last.prev_writes + sw_last.writes <= 1

\* C5, amended: a switch to the cached channel succeeds without a write and
\* changes nothing; after a switch that succeeded, the next switch to the same
\* channel issues no write, so the two issue at most one. (After a switch that
\* failed, the next one to the same channel writes again.)
C5_IdempotentAfterSuccess ==
    /\ [][ (pc = "sw_locked" /\ current_mux_channel = sw_chan /\ pc' # pc)
           => /\ pc' = sw_ret
              /\ sw_result'
              /\ sw_last'.writes = 0
              /\ current_mux_channel' = current_mux_channel
              /\ hw_channel' = hw_channel ]_vars
    /\ [](  (sw_last.chan # None /\ sw_last.prev_chan = sw_last.chan
             /\ sw_last.prev_result)
            => (sw_last.writes = 0 /\ sw_last.prev_writes <= 1 /\ sw_result) )

\* Two consecutive switches to the OLED channel: the first wrote the channel,
\* the second found it cached.
C5_Witness ==
    /\ mux_bus
    /\ pc = "oled_ret"
    /\ sw_last.chan = OLED_CHANNEL
    /\ sw_last.prev_chan = OLED_CHANNEL
    /\ sw_last.prev_writes = 1
    /\ sw_last.prev_result
    /\ sw_last.writes = 0
    /\ sw_result

\* C6 as claimed: a switch to another channel issues between 1 and `retries`
\* channel-select writes and gives up only when all of them failed.
C6_RetriesBeforeFailure ==
    (mux_bus /\ sw_last.chan # None /\ sw_last.writes > 0) =>
        /\ sw_last.writes <= retries
        /\ sw_result => current_mux_channel = sw_last.chan
        /\ ~sw_result => sw_last.writes = retries

\* C7 as claimed: after another process changed the channel, the hardware
\* channel is restored before RecoveryOps arbiter operations have completed.
C7_RestoredWithinRecoveryOps == stale_ops < RecoveryOps

\* C9 as claimed: no thread holds two locks at once.
C9_NoNestedLocks == ~(servo_lock # "free" /\ mux_lock # "free")

\* A scoped acquisition has been released after a failure on the servo side:
\* the angle write raised, or the switch back to the OLED channel failed.
ActuatorFault ==
    /\ mux_bus
    /\ oled_device
    /\ animation_config
    /\ ScopeReleased
    /\ last_io.dev = "servo"
    /\ (~last_io.ok \/ ~sw_result)

\* A display frame has been written with the OLED channel selected.
FrameOnIdle ==
    /\ last_io.dev = "frame"
    /\ last_io.chan = OLED_CHANNEL
    /\ hw_channel = OLED_CHANNEL

\* C8: a failure on the servo side never leaves the display unreachable: if
\* from some point on the channel-select writes succeed (and the loop is not
\* told to stop), then after every such failure a display frame is eventually
\* written with the OLED channel selected, whether or not the encoder produces
\* anything more.
C8_DisplayReachable ==
    (<>[](bus_ok /\ running)) => [](ActuatorFault => <>FrameOnIdle)

\* The switch back to the OLED channel failed and left the multiplexer on the
\* servo channel, with nothing queued by the encoder.
C8_Witness ==
    /\ ActuatorFault
    /\ pc = "usa_back"
    /\ ~sw_result
    /\ hw_channel = SERVO_CHANNEL
    /\ encoder_queue = << >>
    /\ running

\* The main thread is waiting for a lock or holds one. (The polling thread and
\* the signal handler take no lock.)
LockBusy ==
    \/ pc = "sw_entry" /\ mux_bus
    \/ pc = "usa_entry" /\ servo_kit
    \/ mux_lock # "free"
    \/ servo_lock # "free"

\* No lock is held and none is waited for.
LockIdle ==
    /\ mux_lock = "free"
    /\ servo_lock = "free"
    /\ pc \notin {"sw_entry", "usa_entry"}

\* C10: no thread waits forever for mux_lock or servo_lock, and every lock
\* that is acquired is released again, also when the guarded write raises:
\* whenever a lock is waited for or held, a state follows in which every lock
\* is free and none is waited for.
C10_DeadlockFree == LockBusy ~> LockIdle

\* Both locks are held and the channel-select write is about to raise.
C10_Witness ==
    /\ servo_lock = "main"
    /\ mux_lock = "main"
    /\ pc = "sw_locked"
    /\ ~bus_ok

\* update_servo_angle(delta) returns in this step: either at once (no servo
\* device) or after the position has been recomputed under servo_lock.
RotationApplied ==
    /\ usa_delta # 0
    /\ \/ pc = "usa_entry" /\ pc' = "drain"
       \/ pc = "usa_locked" /\ pc' # "usa_locked"

\* C11: every rotation delta that the control loop applies moves
\* encoder_pos by the delta and leaves the angle at
\* clamp(center_angle + encoder_pos * sensitivity(mode)) for the active mode,
\* one delta after the other.
C11_RotationMovesAngle ==
    [][RotationApplied =>
          /\ encoder_pos' = encoder_pos + usa_delta
          /\ current_angle' = NewAngle(mode, encoder_pos + usa_delta)]_vars

\* The clamp range of mode m contains angle a.
InClampRange(m, a) == ClampAngle(m, a) = a

\* C12: in every reachable state the angle lies within the clamp range of
\* the active mode, [range_min_angle, range_max_angle] in range mode and
\* [min_angle, max_angle] otherwise, whatever rotations, single clicks and
\* double clicks came before.
C12_AngleWithinModeRange == InClampRange(mode, current_angle)

\* Steps of ScreenTiltController that mutate the position state: a decoded
\* detent (apply_rotation), and the click timer firing with one counted
\* click (go_home) or two (cycle_mode).
ApplyRotationStep == pc = "tilt_poll" /\ last_clk_state /\ ~last_clk_state'
TimerFired == click_timer /\ ~click_timer'
GoHomeStep == TimerFired /\ click_count = 1
CycleModeStep == TimerFired /\ click_count = 2

\* C13: after every mutation of the position state (a rotation, a single
\* click, a double click) the angle equals
\* clamp(center_angle + encoder_pos * sensitivity(mode)) for the active mode.
C13_AngleFollowsPosition ==
    [][(ApplyRotationStep \/ GoHomeStep \/ CycleModeStep) =>
          current_angle' = TiltNewAngle(mode', encoder_pos')]_vars

\* C14: a double click (cycle_mode) leaves the angle unchanged whenever the
\* angle before the switch lies inside the new mode's clamp range; the angle
\* changes only when it lies outside that range.
C14_ModeSwitchKeepsAngle ==
    [][CycleModeStep =>
          (InClampRange(mode', current_angle) => current_angle' = current_angle)]_vars

\* A double click has switched to fine mode at angle 175, inside the range
\* of the new mode.
C14_Witness ==
    /\ emitted = "double_click"
    /\ mode = "fine"
    /\ current_angle = 175

\* The integer nearest to a / b for b > 0 (no ties arise for the
\* sensitivities 1 and 5).
RoundDiv(a, b) == (2 * a + b) \div (2 * b)

\* The mode order direct -> fine -> range -> direct.
CycleOrder == [direct |-> "fine", fine |-> "range", range |-> "direct"]

\* C15: a double click (cycle_mode) moves the mode along
\* direct -> fine -> range -> direct and sets encoder_pos to the integer
\* nearest to (angle - center_angle) / sensitivity(new mode), for angles on
\* either side of center_angle.
C15_ModeSwitchRoundsPosition ==
    [][CycleModeStep =>
          /\ mode' = CycleOrder[mode]
          /\ encoder_pos' = RoundDiv(current_angle - tilt_center_angle,
                                     TiltSensitivity(mode'))]_vars

\* update_servo_angle(0), called for a click after encoder_pos was reset,
\* returns in this step.
ClickApplied ==
    /\ usa_delta = 0
    /\ \/ pc = "usa_entry" /\ pc' = "drain"
       \/ pc = "usa_locked" /\ pc' # "usa_locked"

\* C16: once a click has been applied, encoder_pos is 0 and the angle is
\* clamp(center_angle) for the active mode, whatever the state before and
\* whether or not the servo device is available.
C16_ClickGoesHome ==
    [][ClickApplied =>
          /\ encoder_pos' = 0
          /\ current_angle' = NewAngle(mode, 0)]_vars

\* C17: between two consecutive CLK samples exactly one rotation is decoded
\* when CLK went from high to low and none otherwise; the rotation is +1
\* when the DT sample differs from the new CLK level and -1 when it equals
\* it. (The click timer is the only other writer of encoder_pos.)
C17_SingleEdgeDecode ==
    [][~TimerFired =>
          encoder_pos' - encoder_pos =
             IF last_clk_state /\ ~last_clk_state'
             THEN (IF sample'.dt # last_clk_state' THEN 1 ELSE -1)
             ELSE 0]_vars

\* A first detent has been decoded as +1: CLK fell while DT read high.
C17_Witness ==
    /\ sample.dt
    /\ ~last_clk_state
    /\ encoder_pos = 1
    /\ produced = 1

\* The release callback of ScreenTiltController accepted a release: the
\* button still read released after the debounce delay.
ReleaseStep == pc = "tilt_poll" /\ button_press_time = 1 /\ button_press_time' = 0

\* The release is counted as the first click and arms the timer; no long
\* press is handled.
CountedAsFirstClick ==
    /\ emitted' = "none"
    /\ click_count' = 1
    /\ click_timer'
    /\ saved_state' = saved_state

\* C18 as stated: a press held for at most 1.0 s, released with no click
\* pending and followed by no further release before the 0.3 s timer runs,
\* produces exactly one Click and no DoubleClick or LongPress.
C18_ShortPressIsOneClick ==
    [][/\ (ReleaseStep /\ sample'.dur \in {"short", "edge"} /\ click_count = 0)
            => CountedAsFirstClick
       /\ GoHomeStep => emitted' = "click"]_vars

\* C18, amended: a press whose duration measured after the 0.05 s debounce
\* delay is at most 1.0 s, released with no click pending and followed by no
\* further release before the 0.3 s timer runs, produces exactly one Click
\* and no DoubleClick or LongPress.
C18_MeasuredShortPressIsOneClick ==
    [][/\ (ReleaseStep /\ ~MeasuredLong(sample'.dur) /\ click_count = 0)
            => CountedAsFirstClick
       /\ GoHomeStep => emitted' = "click"]_vars

\* The timer has just turned one short press into a Click.
C18_Witness ==
    /\ emitted = "click"
    /\ click_count = 0
    /\ ~click_timer
    /\ produced = 1

\* C19: two short releases close together produce one DoubleClick and no
\* Click. The polling thread of UnifiedCyberdeckController reads no clock
\* between releases, so two Click events queued one behind the other between
\* two drains of the control loop are two releases less than one tick apart.
C19_NoClickPairQueued ==
    \A i \in 1 .. Len(encoder_queue) - 1 :
       ~(encoder_queue[i].type = "click" /\ encoder_queue[i + 1].type = "click")

\* C20: a press held for more than 1.0 s produces one LongPress at its
\* release and is not counted as a click, and no release is both a LongPress
\* and a counted click.
C20_LongPressOnly ==
    [][ReleaseStep =>
          /\ sample'.dur = "long" =>
                /\ emitted' = "long_press"
                /\ click_count' = click_count
                /\ click_timer' = click_timer
          /\ ~(emitted' = "long_press" /\ click_count' # click_count)]_vars

\* A release after more than 1.0 s has just been handled as a LongPress.
C20_Witness ==
    /\ emitted = "long_press"
    /\ sample.dur = "long"
    /\ sample.released
    /\ saved_state = TiltSavedNow

\* C21: when the click timer runs with two or more counted clicks, one
\* DoubleClick is handled, the extra clicks are discarded and the counter is
\* back at 0.
C21_BurstIsDoubleClick ==
    [][TimerFired /\ click_count >= 2 =>
          /\ emitted' = "double_click"
          /\ mode' = NextMode(mode)
          /\ click_count' = 0]_vars

Dispatched(t) ==
    /\ pc = "drain"
    /\ encoder_queue # <<>>
    /\ Head(encoder_queue).type = t
    /\ encoder_queue' = Tail(encoder_queue)

\* C23: every event drained by the control loop has the effect of its type:
\* a long press saves the state, a click resets encoder_pos, and a rotation
\* has moved encoder_pos by its delta when update_servo_angle returns; no
\* event is dropped without effect.
C23_EveryEventHasItsEffect ==
    [][/\ Dispatched("long_press") => saved_state' = SavedNow
       /\ Dispatched("click") => encoder_pos' = 0
       /\ RotationApplied => encoder_pos' # encoder_pos]_vars

\* The queue discipline of the drain: the queue changes only by the polling
\* thread appending at the tail or by the drain taking the head, a taken
\* rotation is handed to update_servo_angle with its own delta, and the
\* drain ends only on an empty queue (get_nowait raising Empty).
DrainInOrder ==
    /\ encoder_queue' # encoder_queue =>
          \/ /\ Len(encoder_queue') > Len(encoder_queue)
             /\ SubSeq(encoder_queue', 1, Len(encoder_queue)) = encoder_queue
          \/ /\ pc = "drain"
             /\ encoder_queue # <<>>
             /\ encoder_queue' = Tail(encoder_queue)
    /\ Dispatched("rotation") => usa_delta' = Head(encoder_queue).value
    /\ (pc = "drain" /\ pc' = "oled") => encoder_queue = <<>>

\* C24: the events queued when a drain starts are taken in arrival order,
\* each once, the drain never waits for an event, and each taken rotation
\* is applied to the position.
C24_DrainAppliesEachEventOnce ==
    [][/\ DrainInOrder
       /\ RotationApplied => encoder_pos' = encoder_pos + usa_delta]_vars

\* A tick of the control loop ends in this step: update_oled_frame returns
\* to the while loop of run().
TickEnds == pc \in {"oled", "oled_ret"} /\ pc' = "loop"

\* oled_device.display is called in this step.
FrameStep == last_io'.dev = "frame" /\ last_io.dev # "frame"

\* C25 as stated: every tick renders exactly one frame, so the frames
\* rendered equal the ticks executed.
C25_OneFramePerTick == [][TickEnds => FrameStep]_vars

\* C25, amended: every tick drains first and then renders at most one frame,
\* as its last step: exactly one when the display exists and the switch to
\* the OLED channel succeeded, none otherwise; a frame is never rendered
\* anywhere else, so there are no retried or catch-up frames.
C25_AtMostOneFramePerTick ==
    [][/\ (pc' = "oled" /\ pc # "oled") => (pc = "drain" /\ encoder_queue = <<>>)
       /\ FrameStep => TickEnds
       /\ TickEnds => (FrameStep <=> (oled_device /\ pc = "oled_ret" /\ sw_result))]_vars

\* A tick has just ended with its one frame on the display.
C25_Witness ==
    /\ pc = "loop"
    /\ running
    /\ last_io.dev = "frame"
    /\ last_io.ok

\* C26: a rotation whose clamped angle equals the previous angle causes no
\* channel switch and no servo write (multiplexer, cache and servo are left
\* as they are), while encoder_pos still moves by the delta.
C26_UnchangedAngleWritesNothing ==
    [][RotationApplied /\ NewAngle(mode, encoder_pos + usa_delta) = current_angle =>
          /\ encoder_pos' = encoder_pos + usa_delta
          /\ current_angle' = current_angle
          /\ pc' = "drain"
          /\ UNCHANGED <<hw_channel, current_mux_channel, last_io, sw_last>>]_vars

\* C27: a termination signal takes effect only between two ticks: the tick
\* in flight is finished, the signal never cuts in between the switch to the
\* servo channel and the return to the OLED channel, and the loop then ends
\* with the state saved.
C27_SignalWaitsForTick ==
    [][exit_signal = "none" /\ exit_signal' # "none" =>
          /\ pc = "tilt_poll"
          /\ pc' = "tilt_done"
          /\ saved_state' = TiltSavedNow]_vars

\* C28: when the controller has exited after a termination signal, the saved
\* last_position and mode are the angle and the mode left by the last event
\* that was applied.
C28_SavedStateIsFinalState ==
    pc = "done" => saved_state = SavedNow

\* The controller has exited after a rotation that moved the servo to 135.
C28_Witness ==
    /\ pc = "done"
    /\ ~running
    /\ encoder_pos = -1
    /\ current_angle = 135
    /\ saved_state.last_position = 135

\* A button callback or the click timer of ScreenTiltController runs in this
\* step.
CallbackStep ==
    \/ TimerFired
    \/ pc = "tilt_poll" /\ button_press_time' # button_press_time

\* C29: the button callbacks and the click timer never start a
\* channel-select write or a device write: they only change the classifier's
\* own state.
C29_CallbacksNeverTouchBus ==
    [][CallbackStep =>
          /\ pc' \notin {"fs_ensure", "fs_write", "fs_finally"}
          /\ hw_channel' = hw_channel]_vars

\* C30: angle, encoder_pos and mode are written only by the control loop
\* applying an event, never by a step of another thread (a button callback
\* or the click timer), so no two threads update them concurrently.
C30_OnlyLoopWritesServoState ==
    [][posVars' # posVars => ~CallbackStep]_vars

\* The encoder queue is created by Queue() with no maxsize, and put() is the
\* only operation of the polling thread on it: the code names no capacity.
\* The claim is checked for the largest capacity the followed events can
\* exceed, one below their number.
QueueCapacity == MaxEvents - 1

\* C31 as claimed: the event queue is bounded: its length never exceeds a
\* fixed capacity (when the polling thread enqueues into a full queue, the
\* oldest queued event is dropped rather than the queue growing).
C31_QueueBounded == Len(encoder_queue) <= QueueCapacity

\* A channel-select write of the running tick is about to fail: the bus is
\* wedged for this operation.
WedgedInTick ==
    /\ pc = "sw_locked"
    /\ ~bus_ok
    /\ sw_ret \in {"usa_switched", "usa_back", "oled_ret"}

\* update_oled_frame has just been refused the OLED channel: the frame of this
\* tick is skipped.
FailedOledSwitch == pc = "oled_ret" /\ ~sw_result

\* switch_mux_channel(OLED_CHANNEL) is about to issue its channel-select write.
RetryOledSwitch ==
    /\ pc = "sw_locked"
    /\ sw_chan = OLED_CHANNEL
    /\ current_mux_channel # OLED_CHANNEL

\* C32: a wedged bus never blocks the control loop: a bus operation whose
\* channel-select write fails gives up and the tick it belongs to completes
\* (the loop is back at its stop-flag check), and after a tick whose switch to
\* the OLED channel failed the switch is attempted again, with a new write,
\* on a later pass.
C32_WedgedBusNeverBlocks ==
    /\ WedgedInTick ~> (pc = "loop")
    /\ FailedOledSwitch ~> RetryOledSwitch

\* The switch to the OLED channel is attempted, and fails, after an earlier
\* switch back from the servo channel failed: the cache still names the servo
\* channel, nothing is queued and the encoder will produce no more.
C32_Witness ==
    /\ WedgedInTick
    /\ sw_ret = "oled_ret"
    /\ current_mux_channel = SERVO_CHANNEL
    /\ hw_channel = SERVO_CHANNEL
    /\ encoder_queue = << >>
    /\ produced = MaxEvents
    /\ running

\* C33 as claimed: a device that failed to initialise disables only its own
\* capability: whichever of the display and the servo failed in the
\* constructor, run() enters the control loop (and goes on ticking).
C33_InitFailureKeepsLoop ==
    [][pc = "run" /\ pc' # pc => pc' = "loop"]_vars

\* The main thread, the only caller, is not inside switch_mux_channel.
OutsideSwitch == pc \notin {"sw_entry", "sw_locked"}

\* C34: with no other actor on the bus, whenever no thread is inside
\* switch_mux_channel the cached channel is either unset (no switch has
\* succeeded yet) or the channel the multiplexer hardware has selected.
C34_CacheMatchesHardware ==
    OutsideSwitch =>
        \/ current_mux_channel = None
        \/ current_mux_channel = hw_channel

\* update_servo_angle is back from a failed switch to the servo channel that
\* followed a successful switch to the OLED channel: the cache and the
\* hardware are both still on the OLED channel.
C34_Witness ==
    /\ mux_bus
    /\ pc = "usa_switched"
    /\ ~sw_result
    /\ sw_last.writes = 1
    /\ current_mux_channel = OLED_CHANNEL
    /\ hw_channel = OLED_CHANNEL

\* C35 as claimed: the servo wrappers report every bus or device failure,
\* a failure of the channel-select write included, by returning False and
\* never by raising: no exception leaves MuxAwareServoKit.set_servo_angle,
\* and when ServoKitWithMux.set_angle is about to return after its
\* channel-select write failed, the value it returns is False.
C35_FailuresReturnFalse ==
    /\ pc # "tilt_raised"
    /\ (pc = "fs_finally" /\ exit_signal = "none" /\ ~sw_result) =>
          (last_io.dev = "servo" /\ ~last_io.ok)

\* update_servo_angle has stored a new current_angle but the servo did not get
\* it: the switch to the servo channel failed (the write is skipped), or the
\* angle write raised.
ServoWriteMissed ==
    /\ servo_kit
    /\ \/ pc = "usa_switched" /\ ~sw_result
       \/ pc = "usa_back" /\ last_io.dev = "servo" /\ ~last_io.ok

\* The servo has been written, successfully and on its own channel, with the
\* current angle.
ServoWritten ==
    /\ last_io.dev = "servo"
    /\ last_io.ok
    /\ last_io.chan = SERVO_CHANNEL

\* C36 as claimed: if from some point on the bus operations succeed (and the
\* loop is not told to stop), then after every rotation whose servo write was
\* skipped or failed the servo is eventually written with the current angle,
\* whether or not the encoder produces anything more.
C36_MissedWriteIsRepaired ==
    (<>[](bus_ok /\ running)) => (ServoWriteMissed ~> ServoWritten)

\* C37 as claimed: the drain phase of every tick terminates and is followed
\* by the render phase, also while the polling thread keeps enqueuing events:
\* whenever the loop is draining the queue, update_oled_frame is reached.
C37_RendererNotStarved == (pc = "drain") ~> (pc = "oled")

\* C38 as claimed: the first detent applied after a double click (cycle_mode)
\* moves the angle in the direction of the detent and by at most the
\* sensitivity of the new mode; it never jumps by more than one step.
C38_ModeSwitchIsContinuous ==
    [][(emitted = "double_click" /\ ApplyRotationStep) =>
          LET d == encoder_pos' - encoder_pos
              moved == current_angle' - current_angle
          IN  /\ d * moved >= 0
              /\ moved <= TiltSensitivity(mode)
              /\ -moved <= TiltSensitivity(mode)]_vars

\* C39 as claimed: when the constructor has seeded the position state from a
\* persisted state, the seeded state satisfies
\* angle = clamp(center_angle + encoder_pos * sensitivity(mode)), so that the
\* first rotation continues from the persisted angle.
C39_SeededStateIsConsistent ==
    (pc = "run" /\ saved_state.present) =>
        current_angle = NewAngle(mode, encoder_pos)
====
